---- MODULE Spec2Model ----
(***************************************************************************)
(* NEPSE order bot (src/Integrated.py).                                    *)
(*                                                                         *)
(* Spec        the paced, single-threaded trader (Integrated.py 1-1063):   *)
(*             main loop, boundary scheduler, back-to-back loop,           *)
(*             place_buy_order, the price/circuit engine with its state    *)
(*             file, the paced rapid_click_buy_button, and the two         *)
(*             hotkeys (stop, F5).                                         *)
(* FairSpec    the same trader launched just before the pre-open window,   *)
(*             with weak fairness of the main thread.                      *)
(* LongSpec    the same trader launched with a --duration of 30 hours,     *)
(*             so that one process lives through a change of date.         *)
(* CrashSpec   the paced trader with F5, process crash and relaunch.       *)
(* ThreadSpec  the four-thread rapid_click_buy_button of the second        *)
(*             trader in the file (Integrated.py 1560-1608, 1733-1736).    *)
(* SessionSpec the paced trader's session recovery: check_session_validity *)
(*             with login and navigation, its callers on the order path,   *)
(*             the site ending the login, the browser dying, and stop.     *)
(* ProfilerSpec the LatencyProfiler under every order of its calls.        *)
(* ClockSpec   one day of the wall clock, second by second, for the        *)
(*             session tests is_pre_open_hours / is_regular_trading_hours. *)
(*                                                                         *)
(* Time is wall-clock seconds since midnight of day 0.  The clock moves    *)
(* over a finite grid of instants (Grid): the second before the pre-open   *)
(* window, the window edges, the refresh and boundary instants, and the    *)
(* second after each boundary and each window.  An instant of the grid     *)
(* stands for every time from it up to the next instant; a step that       *)
(* takes time leaves the clock where it is or moves it to the next one.    *)
(* Prices are integers in tenths of a rupee (1100 is 110.0).               *)
(***************************************************************************)
EXTENDS Integers, Sequences, FiniteSets, TLC

\* ---------------------------------------------------------------- bounds
Horizon == 18          \* instants of the clock grid that are modelled
MaxRestarts == 1       \* process crashes / relaunches
MaxClicks == 2         \* entries of the click schedule (32768 in the code)
SleepSteps == 2        \* increments of one interruptible_sleep call
MaxCount == 2          \* saturation of the history counters
MaxPolls == 3          \* polls of one captcha wait (CAPTCHA_FILL_WAIT seconds in the code)
MaxNs == 3             \* readings of tm.time_ns() that are told apart
MaxLines == 6          \* lines of latency_profiler.log

\* ------------------------------------------------------ program constants
PREOPEN_START_HOUR == 10
PREOPEN_START_MINUTE == 29
PREOPEN_BOUNDARY_HOUR == 10
PREOPEN_BOUNDARY_MINUTE == 30
PREOPEN_BOUNDARY_SECOND == 0
PREOPEN_END_HOUR == 10
PREOPEN_END_MINUTE == 45
REGULAR_START_HOUR == 10
REGULAR_START_MINUTE == 59
REGULAR_BOUNDARY_HOUR == 11
REGULAR_BOUNDARY_MINUTE == 0
REGULAR_BOUNDARY_SECOND == 0
REGULAR_END_HOUR == 15
REGULAR_END_MINUTE == 0
CIRCUIT_LIMIT_PERCENTAGE == 10
FORM_FILLING_MODE == TRUE
run_duration_hours == 6
refresh_margin == 2    \* browser_refresh_seconds (1.7) + 0.3

\* ------------------------------------------------------------------ time
DaySeconds == 24 * 3600
TimeOfDay(h, m, s) == h * 3600 + m * 60 + s
DayOf(t) == t \div DaySeconds
Tod(t) == t % DaySeconds

PreopenStart == TimeOfDay(PREOPEN_START_HOUR, PREOPEN_START_MINUTE, 0)
PreopenEnd == TimeOfDay(PREOPEN_END_HOUR, PREOPEN_END_MINUTE, 0)
PreopenBoundary ==
    TimeOfDay(PREOPEN_BOUNDARY_HOUR, PREOPEN_BOUNDARY_MINUTE, PREOPEN_BOUNDARY_SECOND)
RegularStart == TimeOfDay(REGULAR_START_HOUR, REGULAR_START_MINUTE, 0)
RegularEnd == TimeOfDay(REGULAR_END_HOUR, REGULAR_END_MINUTE, 0)
RegularBoundary ==
    TimeOfDay(REGULAR_BOUNDARY_HOUR, REGULAR_BOUNDARY_MINUTE, REGULAR_BOUNDARY_SECOND)

\* The instants of a day the clock can show.
GridOfDay ==
    {PreopenStart - 1,
     PreopenStart, PreopenBoundary - refresh_margin, PreopenBoundary,
     PreopenBoundary + 1, PreopenEnd, PreopenEnd + 1,
     RegularStart, RegularBoundary - refresh_margin, RegularBoundary,
     RegularBoundary + 1, RegularEnd, RegularEnd + 1}
GridOfDays == {d * DaySeconds + g : d \in 0..2, g \in GridOfDay}
Grid == {g \in GridOfDays : Cardinality({h \in GridOfDays : h < g}) < Horizon}
LastDay == DayOf(CHOOSE g \in Grid : \A h \in Grid : h <= g)

Min(S) == CHOOSE x \in S : \A y \in S : x <= y

\* The next instant of the grid; the clock stops at the last one.
NextGrid(t) == IF \E g \in Grid : g > t THEN Min({g \in Grid : g > t}) ELSE t
\* The clock after a step that takes dt (0 or 1) grid steps.
Advance(t, dt) == IF dt = 0 THEN t ELSE NextGrid(t)

\* A pre-open window without its end.
is_pre_open_hours_unended(t) == PreopenStart <= Tod(t)
is_pre_open_hours(t) == PreopenStart <= Tod(t) /\ Tod(t) <= PreopenEnd
is_regular_trading_hours(t) == RegularStart <= Tod(t) /\ Tod(t) <= RegularEnd
is_trading_hours(t) == is_pre_open_hours(t) \/ is_regular_trading_hours(t)

\* now.replace(hour, minute, second), rolled to the next day once passed.
Roll(t, b) == IF t > b THEN b + DaySeconds ELSE b
preopen_boundary(t) == Roll(t, DayOf(t) * DaySeconds + PreopenBoundary)
reg_boundary(t) == Roll(t, DayOf(t) * DaySeconds + RegularBoundary)

\* ------------------------------------------------ prices and page values
None == -1                         \* Python None in a numeric field
NoneString == -2                   \* the string "None" in trading_date
PreCloseValues == {1000}           \* Pre Close shown on the page (100.0)
HighValues == {950, 1080}          \* High shown on the page (95.0, 108.0)

\* math.floor(x * pct * 10) / 10 on tenths
FloorScale(x, pct) == (x * pct) \div 100
CircuitLimitOf(pre_close) == FloorScale(pre_close, 100 + CIRCUIT_LIMIT_PERCENTAGE)
MarkUp(v) == FloorScale(v, 102)

\* ------------------------------------------------------------- the state
VARIABLES
    now,                \* the wall clock
    pc,                 \* where the main thread is
    active,             \* self.active
    refresh_requested,  \* threading.Event, set by F5 and by stop_bot
    stop_clicking,      \* threading.Event
    order_success,      \* threading.Event
    mem,                \* the trader's fields that outlive one order cycle
    state_file,         \* order_logs/bot_state.txt: its lines, or <<>> when absent
    loc,                \* locals and arguments of the running functions
    hist,               \* history of the run (what the claims speak about)
    thr,                \* the threaded variant: caller and click threads
    driver,             \* self.driver: the browser and what it shows
    cs,                 \* the session check: position, caller, result
    latency_profiler    \* self.latency_profiler: its two marks and its log file

vars == <<now, pc, active, refresh_requested, stop_clicking, order_success,
          mem, state_file, loc, hist, thr, driver, cs, latency_profiler>>

\* NepseTrader.__init__: the fields as the constructor sets them.
InitMem ==
    [last_transaction_id |-> None,
     last_known_price |-> None,
     last_known_qty |-> None,
     trading_date |-> None,
     circuit_limit_price_for_date |-> None,
     regular_session_price_for_date |-> None,
     circuit_hit_for_date |-> FALSE,
     last_known_high |-> None,
     last_order_at_circuit |-> FALSE,
     pre_close_price |-> None]

\* --------------------------------------------------------- the state file
\* A line of the file is <<key, text>>.  A text is what str() writes:
\* "None", "True", "False", or the digits of a number.
TextNone == [kind |-> "None", n |-> 0]
TextOfBool(b) == [kind |-> IF b THEN "True" ELSE "False", n |-> 0]
TextOfNumber(v) == IF v = None THEN TextNone ELSE [kind |-> "digits", n |-> v]
\* a field that holds None, the string "None" read back from a file, or a value
TextOfDate(d) == IF d \in {None, NoneString} THEN TextNone ELSE [kind |-> "digits", n |-> d]

\* _save_state_to_local_storage: the nine lines, in the order written.
SavedLines(m) ==
    << <<"last_transaction_id", TextOfDate(m.last_transaction_id)>>,
       <<"last_known_price", TextOfNumber(m.last_known_price)>>,
       <<"last_known_qty", TextOfNumber(m.last_known_qty)>>,
       <<"trading_date", TextOfDate(m.trading_date)>>,
       <<"circuit_limit_price_for_date", TextOfNumber(m.circuit_limit_price_for_date)>>,
       <<"regular_session_price_for_date", TextOfNumber(m.regular_session_price_for_date)>>,
       <<"circuit_hit_for_date", TextOfBool(m.circuit_hit_for_date)>>,
       <<"last_known_high", TextOfNumber(m.last_known_high)>>,
       <<"last_order_at_circuit", TextOfBool(m.last_order_at_circuit)>> >>

\* float(text) / int(text): raises ValueError unless the text is a number.
ParsesAsNumber(text) == text.kind = "digits"
NumberOf(text) == IF text.kind = "digits" THEN text.n ELSE None

\* One line of the restore loop.  The result is the memory after the line
\* and whether the line raised (which ends the whole restore).
RestoreLine(m, line) ==
    LET key == line[1]
        text == line[2]
        raise == [m |-> m, raised |-> TRUE]
        ok(mm) == [m |-> mm, raised |-> FALSE]
    IN  CASE key = "last_transaction_id" ->
               \* kept as the string; the model keeps None / NoneString / n
               ok([m EXCEPT !.last_transaction_id =
                      IF text.kind = "digits" THEN text.n ELSE NoneString])
          [] key = "last_known_price" ->
               IF ParsesAsNumber(text)
               THEN ok([m EXCEPT !.last_known_price = NumberOf(text)])
               ELSE raise
          [] key = "last_known_qty" ->
               IF ParsesAsNumber(text)
               THEN ok([m EXCEPT !.last_known_qty = NumberOf(text)])
               ELSE raise
          [] key = "trading_date" ->
               ok([m EXCEPT !.trading_date =
                      IF text.kind = "digits" THEN text.n ELSE NoneString])
          [] key = "circuit_limit_price_for_date" ->
               IF text.kind = "None"
               THEN ok([m EXCEPT !.circuit_limit_price_for_date = None])
               ELSE IF ParsesAsNumber(text)
                    THEN ok([m EXCEPT !.circuit_limit_price_for_date = NumberOf(text)])
                    ELSE raise
          [] key = "regular_session_price_for_date" ->
               IF text.kind = "None"
               THEN ok([m EXCEPT !.regular_session_price_for_date = None])
               ELSE IF ParsesAsNumber(text)
                    THEN ok([m EXCEPT !.regular_session_price_for_date = NumberOf(text)])
                    ELSE raise
          [] key = "circuit_hit_for_date" ->
               ok([m EXCEPT !.circuit_hit_for_date = (text.kind = "True")])
          [] key = "last_known_high" ->
               IF text.kind = "None"
               THEN ok([m EXCEPT !.last_known_high = None])
               ELSE IF ParsesAsNumber(text)
                    THEN ok([m EXCEPT !.last_known_high = NumberOf(text)])
                    ELSE raise
          [] key = "last_order_at_circuit" ->
               ok([m EXCEPT !.last_order_at_circuit = (text.kind = "True")])
          [] OTHER -> ok(m)

\* The loop over the lines: the first line that raises leaves the loop (the
\* try block encloses the whole loop), keeping what earlier lines assigned.
RECURSIVE RestoreFrom(_, _, _)
RestoreFrom(m, lines, i) ==
    IF i > Len(lines) THEN m
    ELSE LET r == RestoreLine(m, lines[i])
         IN  IF r.raised THEN r.m ELSE RestoreFrom(r.m, lines, i + 1)

\* _restore_state_from_local_storage on a freshly constructed trader.
_restore_state_from_local_storage(lines) ==
    IF lines = <<>> THEN InitMem ELSE RestoreFrom(InitMem, lines, 1)

\* ------------------------------------------------- price / circuit engine
\* A reset that fires on every call.
NeedsResetAlways(m, today) == TRUE
\* _reset_daily_limits_if_needed, for date.today() = today
NeedsReset(m, today) == m.trading_date # today
ResetDaily(m, today) ==
    [m EXCEPT !.trading_date = today,
              !.circuit_limit_price_for_date = None,
              !.regular_session_price_for_date = None,
              !.circuit_hit_for_date = FALSE,
              !.last_known_high = None,
              !.last_order_at_circuit = FALSE]
_reset_daily_limits_if_needed(m, today) ==
    IF NeedsReset(m, today) THEN ResetDaily(m, today) ELSE m

\* get_pre_close_price: the cached value when there is one, else the page
\* value `shown` (None when the element cannot be read), which is cached.
get_pre_close_price(m, shown) ==
    IF m.pre_close_price # None THEN m.pre_close_price ELSE shown
CachePreClose(m, shown) ==
    IF m.pre_close_price = None /\ shown # None
    THEN [m EXCEPT !.pre_close_price = shown] ELSE m

\* A candidate without the 2% on top of the high.
CandidateUnmarked(high, limit) == IF high = None THEN limit ELSE high
\* The candidate price of the continuous session: floor(high * 1.02), or
\* the circuit limit when the High element cannot be read.
Candidate(high, limit) == IF high = None THEN limit ELSE MarkUp(high)
\* A price engine that never caps the candidate.
ReachesCircuitNever(candidate, limit) == FALSE
\* The comparison that decides "circuit reached".
ReachesCircuit(candidate, limit) == candidate >= limit
\* A price engine that forgets the circuit was reached.
StaysAtCircuitNever(m) == FALSE
\* line 570: the circuit already reached on this date
StaysAtCircuit(m) == m.circuit_hit_for_date

\* A price engine that goes on without a pre-close.
PreCloseMissingIgnored(need_limit, pre_close) == FALSE
\* lines 556-560: a limit is to be set and there is no pre-close for it
PreCloseMissing(need_limit, pre_close) == need_limit /\ pre_close = None

\* fill_price_regular.  shown / high are what the page shows (None when
\* unreadable), field_ok whether the price input could be filled.  The
\* result: the memory afterwards, whether the state file was written, and
\* the returned (price, at_circuit).
fill_price_regular(m, today, shown, high, field_ok) ==
    LET m1 == _reset_daily_limits_if_needed(m, today)
        did_reset == NeedsReset(m, today)
        need_limit == m1.circuit_limit_price_for_date = None
        pre_close == get_pre_close_price(m1, shown)
        m1c == IF need_limit THEN CachePreClose(m1, shown) ELSE m1
        m2 == IF need_limit
              THEN [m1c EXCEPT !.circuit_limit_price_for_date = CircuitLimitOf(pre_close),
                               !.circuit_hit_for_date = FALSE,
                               !.last_order_at_circuit = FALSE]
              ELSE m1c
        limit == m2.circuit_limit_price_for_date
        candidate == Candidate(high, limit)
        hit == StaysAtCircuit(m2) \/ ReachesCircuit(candidate, limit)
        price_to_use == IF hit THEN limit ELSE candidate
        m3 == [m2 EXCEPT !.circuit_hit_for_date = hit,
                         !.regular_session_price_for_date = price_to_use]
    IN  IF PreCloseMissing(need_limit, pre_close)
        THEN [m |-> m1c, saved |-> did_reset, price |-> None, at_circuit |-> FALSE]
        ELSE [m |-> m3, saved |-> TRUE,
              price |-> IF field_ok THEN price_to_use ELSE None,
              at_circuit |-> hit]

\* fill_price_pre_open: floor(pre_close * 1.02), never at circuit.
fill_price_pre_open(m, shown, field_ok) ==
    LET pre_close == get_pre_close_price(m, shown)
    IN  [m |-> CachePreClose(m, shown), saved |-> FALSE,
         price |-> IF pre_close = None \/ ~field_ok THEN None ELSE MarkUp(pre_close),
         at_circuit |-> FALSE]

\* The day on which the pre-close held after a fill (memory m2, from m) was
\* read from the page: line 515 assigns the cache only when it was empty.
ReadOn(read_on, m, m2, today) ==
    IF m2.pre_close_price = None THEN None
    ELSE IF m.pre_close_price = None THEN today ELSE read_on

\* What memory m shows for its trading date, added to the record kept of it.
Observe(seen, m) ==
    IF m.trading_date \in {None, NoneString} THEN seen
    ELSE IF m.trading_date # seen.day
    THEN [day |-> m.trading_date, limit |-> m.circuit_limit_price_for_date,
          hit |-> m.circuit_hit_for_date]
    ELSE [seen EXCEPT !.limit = IF @ = None THEN m.circuit_limit_price_for_date ELSE @,
                      !.hit = @ \/ m.circuit_hit_for_date]

\* ------------------------------------------------------------ locals
\* The arguments and locals of the functions on the main thread's stack.
InitLoc ==
    [run_duration_hours |-> run_duration_hours,   \* --duration
     end_time |-> 0,
     boundary_time |-> 0,
     boundary_type |-> "none",     \* "PREOPEN" / "REGULAR"
     price |-> None,
     at_circuit |-> FALSE,
     form_filling_mode |-> FALSE,
     click_count |-> 0,
     i |-> 0,                      \* entries of click_times consumed
     success |-> FALSE,            \* rapid_click_buy_button's second result
     slept |-> 0,
     pb_ret |-> "none",            \* where place_buy_order returns to
     rc_ret |-> "none",            \* where rapid_click_buy_button returns to
     sleep_ret |-> "none"]         \* where interruptible_sleep returns to

Sat(n) == IF n < MaxCount THEN n + 1 ELSE MaxCount

NoRow == [status |-> "none", click_count |-> 0]
InitHist ==
    [restarts |-> 0,
     undisturbed |-> TRUE,         \* no stop, F5, crash, session or form failure yet
     stop_at |-> "none",           \* where the main thread was when stop_bot first ran
     misses |-> 0,                 \* schedule entries of this dispatch without a click
     seen |-> [day |-> None,       \* the trading date memory held last, with the
               limit |-> None,     \* circuit limit first set for it and whether
               hit |-> FALSE],     \* circuit_hit was ever true for it
     circuit_orders |-> [d \in 0..LastDay |-> 0],  \* successes at circuit, per day
     fired |-> {},                 \* <<day, boundary_type>> of boundary dispatches
     clicks_after_stop |-> 0,
     sleeps_after_stop |-> 0,
     entered_after_stop |-> FALSE, \* this dispatch was entered after stop_bot
     row |-> NoRow,                \* the order-log row this attempt appended last
     rows |-> 0,                   \* order-log rows this attempt appended
     price_error |-> FALSE,        \* this attempt logged the missing-price error
     read_on |-> None]             \* the day the cached pre-close was read from the page

\* An order attempt starts with nothing logged.
NewAttempt(h) == [h EXCEPT !.row = NoRow, !.rows = 0, !.price_error = FALSE]
\* A log_order that appends nothing.
log_order_dropped(h, status, click_count) == h
\* log_order (lines 766-770): one row appended to the order log
log_order(h, status, click_count) ==
    [h EXCEPT !.row = [status |-> status, click_count |-> click_count],
              !.rows = Sat(@)]

\* The times of day 0 at which the process is launched.
StartTimes == {g \in Grid : DayOf(g) = 0}

\* The click threads of the threaded trader (line 1601: range(4)).
NumThreads == 4
Threads == 1..NumThreads

\* The threaded trader: its caller's position, each click thread's position,
\* the value of click_count a thread has read and not yet written back, and
\* what rapid_click_buy_button returned last.
InitThr ==
    [caller |-> "off",
     t |-> [i \in Threads |-> "unstarted"],
     tmp |-> [i \in Threads |-> 0],
     click_count |-> 0,
     result |-> [click_count |-> 0, success |-> FALSE],
     polls |-> 0,                  \* iterations of the captcha wait of this login
     polls_after_stop |-> 0]       \* those begun after stop_bot

\* LatencyProfiler.__init__ (lines 205-207): no mark set; lines counts the
\* lines of latency_profiler.log.
InitProfiler ==
    [boundary_order_time |-> None, server_response_time |-> None, lines |-> 0,
     last |-> "__init__"]          \* the method called last

\* The browser as __init__ leaves it (line 237): open, on a blank page,
\* not logged in.
InitDriver == [alive |-> TRUE, auth |-> FALSE, page |-> "blank"]
\* The session check is not running.
InitCs == [pc |-> "off", caller |-> "none", path |-> "none", session_ok |-> FALSE]

Init ==
    /\ now \in StartTimes
    /\ pc = "main_start"
    /\ active = TRUE
    /\ refresh_requested = FALSE
    /\ stop_clicking = FALSE
    /\ order_success = FALSE
    /\ mem = InitMem
    /\ state_file = <<>>
    /\ loc = InitLoc
    /\ hist = InitHist
    /\ thr = InitThr
    /\ driver = InitDriver
    /\ cs = InitCs
    /\ latency_profiler = InitProfiler

flags == <<active, refresh_requested, stop_clicking, order_success>>
store == <<mem, state_file>>

\* The flag test of the waits and of the order functions.
Interrupted == refresh_requested \/ ~active
Disturbed(h, failed) == IF failed THEN [h EXCEPT !.undisturbed = FALSE] ELSE h
Running == pc \notin {"done", "crashed"}

\* ------------------------------------------------- _automation_main_loop
\* lines 818-820
MainStart ==
    /\ pc = "main_start"
    /\ loc' = [loc EXCEPT !.end_time = now + loc.run_duration_hours * 3600]
    /\ pc' = "loop_top"
    /\ UNCHANGED <<now, flags, store, hist, thr, driver, cs, latency_profiler>>

\* A main loop that tests the clock only.
LoopConditionClockOnly == now < loc.end_time

\* line 821: while tm.time() < end_time and self.active
LoopCondition == now < loc.end_time /\ active
LoopTop ==
    /\ pc = "loop_top"
    /\ pc' = IF LoopCondition THEN "phase" ELSE "finally"
    /\ hist' = NewAttempt(hist)
    /\ UNCHANGED <<now, flags, store, loc, thr, driver, cs, latency_profiler>>

\* lines 833 and 843: which boundary, if any, this iteration schedules
SchedulesPreopen(t) == is_pre_open_hours(t)
SchedulesRegular(t) == is_regular_trading_hours(t) /\ t < reg_boundary(t)

\* lines 824-850
Phase ==
    /\ pc = "phase"
    /\ IF SchedulesPreopen(now)
       THEN /\ loc' = [loc EXCEPT !.boundary_time = preopen_boundary(now),
                                  !.boundary_type = "PREOPEN"]
            /\ pc' = "sb_wait"
       ELSE IF SchedulesRegular(now)
       THEN /\ loc' = [loc EXCEPT !.boundary_time = reg_boundary(now),
                                  !.boundary_type = "REGULAR"]
            /\ pc' = "sb_wait"
       ELSE /\ pc' = "f5_check"
            /\ UNCHANGED loc
    /\ UNCHANGED <<now, flags, store, hist, thr, driver, cs, latency_profiler>>

\* lines 852-853, 862-865
F5Check ==
    /\ pc = "f5_check"
    /\ IF refresh_requested
       THEN IF is_trading_hours(now)
            THEN pc' = "f5_refresh" /\ UNCHANGED refresh_requested
            ELSE pc' = "loop_top" /\ refresh_requested' = FALSE
       ELSE pc' = "session" /\ UNCHANGED refresh_requested
    /\ UNCHANGED <<now, active, stop_clicking, order_success, store, loc, hist, thr, driver, cs, latency_profiler>>

\* lines 855-861: driver.refresh(), check_session_validity(), then the order
F5Refresh ==
    /\ pc = "f5_refresh"
    /\ \E dt \in 0..1, outcome \in {"ok", "invalid", "raise"} :
         /\ now' = Advance(now, dt)
         /\ hist' = Disturbed(hist, outcome # "ok")
         /\ CASE outcome = "ok" ->
                   /\ loc' = [loc EXCEPT !.pb_ret = "f5_clear", !.form_filling_mode = FALSE]
                   /\ pc' = "pb_start"
              [] outcome = "invalid" ->
                   /\ loc' = [loc EXCEPT !.slept = 0, !.sleep_ret = "f5_clear"]
                   /\ pc' = "isleep"
              [] outcome = "raise" ->
                   /\ loc' = [loc EXCEPT !.slept = 0, !.sleep_ret = "loop_top"]
                   /\ pc' = "isleep"
    /\ UNCHANGED <<flags, store, thr, driver, cs, latency_profiler>>

\* lines 859-860 and 864-865: refresh_requested.clear(); continue
F5Clear ==
    /\ pc = "f5_clear"
    /\ refresh_requested' = FALSE
    /\ pc' = "loop_top"
    /\ UNCHANGED <<now, active, stop_clicking, order_success, store, loc, hist, thr, driver, cs, latency_profiler>>

\* lines 867-882: the session check, then back-to-back or form filling
Session ==
    /\ pc = "session"
    /\ \E dt \in 0..1, session_ok \in BOOLEAN :
         /\ now' = Advance(now, dt)
         /\ hist' = Disturbed(hist, ~session_ok)
         /\ IF ~session_ok
            THEN /\ loc' = [loc EXCEPT !.slept = 0, !.sleep_ret = "loop_top"]
                 /\ pc' = "isleep"
            ELSE IF is_trading_hours(now')
            THEN /\ pc' = "btb_top"
                 /\ UNCHANGED loc
            ELSE IF FORM_FILLING_MODE
            THEN /\ loc' = [loc EXCEPT !.pb_ret = "loop_top", !.form_filling_mode = TRUE]
                 /\ pc' = "pb_start"
            ELSE /\ loc' = [loc EXCEPT !.slept = 0, !.sleep_ret = "loop_top"]
                 /\ pc' = "isleep"
    /\ UNCHANGED <<flags, store, thr, driver, cs, latency_profiler>>

\* continue_automation_loop, lines 781-787: driver.quit()
Finally ==
    /\ pc = "finally"
    /\ pc' = "done"
    /\ UNCHANGED <<now, flags, store, loc, hist, thr, driver, cs, latency_profiler>>

\* ---------------------------------------------------- interruptible_sleep
\* lines 368-370
SleepCheck ==
    /\ pc = "isleep"
    /\ IF loc.slept < SleepSteps /\ ~Interrupted
       THEN pc' = "isleep_sleep" /\ UNCHANGED loc
       ELSE pc' = loc.sleep_ret /\ loc' = [loc EXCEPT !.slept = 0, !.sleep_ret = "none"]
    /\ UNCHANGED <<now, flags, store, hist, thr, driver, cs, latency_profiler>>

AfterStop(h) == IF active THEN h ELSE [h EXCEPT !.sleeps_after_stop = Sat(@)]

\* lines 371-372
SleepStep ==
    /\ pc = "isleep_sleep"
    /\ \E dt \in 0..1 : now' = Advance(now, dt)
    /\ loc' = [loc EXCEPT !.slept = @ + 1]
    /\ hist' = AfterStop(hist)
    /\ pc' = "isleep"
    /\ UNCHANGED <<flags, store, thr, driver, cs, latency_profiler>>

\* ------------------------------------------------ _schedule_boundary_order
Return(l) == [l EXCEPT !.boundary_time = 0, !.boundary_type = "none",
                       !.price = None, !.at_circuit = FALSE,
                       !.click_count = 0, !.i = 0, !.success = FALSE]

\* A wait that tests the clock only.
WaitGoesOnClockOnly(target) == now < target
\* _wait_until(refresh_time), lines 810-814: the loop test and the flag test
WaitGoesOn(target) == now < target /\ ~Interrupted
SbWait ==
    /\ pc = "sb_wait"
    /\ pc' = IF WaitGoesOn(loc.boundary_time - refresh_margin)
             THEN "sb_wait_sleep" ELSE "sb_active"
    /\ UNCHANGED <<now, flags, store, loc, hist, thr, driver, cs, latency_profiler>>

\* line 815: tm.sleep(interval)
SbWaitSleep ==
    /\ pc = "sb_wait_sleep"
    /\ \E dt \in 0..1 : now' = Advance(now, dt)
    /\ hist' = AfterStop(hist)
    /\ pc' = "sb_wait"
    /\ UNCHANGED <<flags, store, loc, thr, driver, cs, latency_profiler>>

\* lines 897-898
SbActive ==
    /\ pc = "sb_active"
    /\ IF ~active
       THEN pc' = "loop_top" /\ loc' = Return(loc)
       ELSE pc' = "sb_refresh" /\ UNCHANGED loc
    /\ UNCHANGED <<now, flags, store, hist, thr, driver, cs, latency_profiler>>

\* lines 900-904: driver.refresh(), check_session_validity()
SbRefresh ==
    /\ pc = "sb_refresh"
    /\ \E dt \in 0..1, outcome \in {"ok", "invalid", "raise"} :
         /\ now' = Advance(now, dt)
         /\ hist' = Disturbed(hist, outcome # "ok")
         /\ IF outcome = "ok"
            THEN pc' = "sb_prepare" /\ UNCHANGED loc
            ELSE /\ loc' = [Return(loc) EXCEPT !.slept = 0, !.sleep_ret = "loop_top"]
                 /\ pc' = "isleep"
    /\ UNCHANGED <<flags, store, thr, driver, cs, latency_profiler>>

\* A scheduler that goes from the prepared form straight to the dispatch.
SbPrepareUnfilled ==
    /\ pc = "sb_prepare"
    /\ \E dt \in 0..1, form_ok \in BOOLEAN :
         /\ now' = Advance(now, dt)
         /\ IF Interrupted \/ ~form_ok
            THEN /\ pc' = "loop_top"
                 /\ loc' = Return(loc)
                 /\ hist' = Disturbed(hist, ~Interrupted)
            ELSE /\ pc' = "sb_fire"
                 /\ UNCHANGED <<loc, hist>>
    /\ UNCHANGED <<flags, store, thr, driver, cs, latency_profiler>>
\* prepare_order_form, lines 722-764: the flag test, the session check, the form
SbPrepare ==
    /\ pc = "sb_prepare"
    /\ \E dt \in 0..1, form_ok \in BOOLEAN :
         /\ now' = Advance(now, dt)
         /\ IF Interrupted \/ ~form_ok
            THEN /\ pc' = "loop_top"
                 /\ loc' = Return(loc)
                 /\ hist' = Disturbed(hist, ~Interrupted)
            ELSE /\ pc' = "sb_fill"
                 /\ UNCHANGED <<loc, hist>>
    /\ UNCHANGED <<flags, store, thr, driver, cs, latency_profiler>>

\* A fill that never writes the state file.
PersistNever(file, r) == file
\* lines 569, 594 and 597 (and 517 in the daily reset): the state file after
\* a price fill with result r
Persist(file, r) == IF r.saved THEN SavedLines(r.m) ELSE file

\* line 912: price, at_circuit = fill_price_fn()
SbFill ==
    /\ pc = "sb_fill"
    /\ \E dt \in 0..1, shown \in PreCloseValues \cup {None},
          high \in HighValues \cup {None}, field_ok \in BOOLEAN :
         LET r == IF loc.boundary_type = "PREOPEN"
                  THEN fill_price_pre_open(mem, shown, field_ok)
                  ELSE fill_price_regular(mem, DayOf(now), shown, high, field_ok)
         IN  /\ mem' = r.m
             /\ state_file' = Persist(state_file, r)
             /\ loc' = [loc EXCEPT !.price = r.price, !.at_circuit = r.at_circuit]
             /\ hist' = [hist EXCEPT !.seen = Observe(@, r.m),
                                    !.read_on = ReadOn(@, mem, r.m, DayOf(now))]
             /\ now' = Advance(now, dt)
    /\ pc' = "sb_fine"
    /\ UNCHANGED <<flags, thr, driver, cs, latency_profiler>>

\* A fine wait that never waits.
BeforeBoundaryNever == FALSE
\* line 915: while datetime.now() < boundary_time
BeforeBoundary == now < loc.boundary_time
SbFine ==
    /\ pc = "sb_fine"
    /\ IF BeforeBoundary
       THEN /\ \E dt \in 0..1 : now' = Advance(now, dt)
            /\ pc' = "sb_fine_delta"
       ELSE /\ pc' = "sb_fire"
            /\ UNCHANGED now
    /\ UNCHANGED <<flags, store, loc, hist, thr, driver, cs, latency_profiler>>

\* lines 916-918: delta from a second clock reading, and the flag test
SbFineDelta ==
    /\ pc = "sb_fine_delta"
    /\ IF Interrupted \/ loc.boundary_time - now <= 0
       THEN pc' = "loop_top" /\ loc' = Return(loc)
       ELSE pc' = "sb_fine_sleep" /\ UNCHANGED loc
    /\ UNCHANGED <<now, flags, store, hist, thr, driver, cs, latency_profiler>>

\* line 919: tm.sleep(min(0.01, delta))
SbFineSleep ==
    /\ pc = "sb_fine_sleep"
    /\ \E dt \in 0..1 : now' = Advance(now, dt)
    /\ hist' = AfterStop(hist)
    /\ pc' = "sb_fine"
    /\ UNCHANGED <<flags, store, loc, thr, driver, cs, latency_profiler>>

\* lines 921-924: the dispatch of the boundary order
SbFire ==
    /\ pc = "sb_fire"
    /\ loc' = [loc EXCEPT !.rc_ret = "sb_after"]
    /\ hist' = [hist EXCEPT !.fired = @ \cup {<<DayOf(now), loc.boundary_type>>}]
    /\ pc' = "rc_start"
    /\ UNCHANGED <<now, flags, store, thr, driver, cs, latency_profiler>>

\* A record that takes every success for one at the circuit.
RecordSuccessAtCircuit(m, at_circuit) == [m EXCEPT !.last_order_at_circuit = TRUE]
\* What a successful dispatch records (lines 926-929 and 992-995).
RecordSuccess(m, at_circuit) == [m EXCEPT !.last_order_at_circuit = at_circuit]
CountCircuit(h, at_circuit) ==
    IF at_circuit
    THEN [h EXCEPT !.circuit_orders[DayOf(now)] = Sat(@)]
    ELSE h

\* lines 925-933
SbAfter ==
    /\ pc = "sb_after"
    /\ IF loc.success
       THEN /\ mem' = RecordSuccess(mem, loc.at_circuit)
            /\ state_file' = SavedLines(mem')
            /\ hist' = log_order([CountCircuit(hist, loc.at_circuit) EXCEPT !.misses = 0],
                                  "SUCCESS", loc.click_count)
       ELSE /\ hist' = log_order([hist EXCEPT !.misses = 0], "FAILED", loc.click_count)
            /\ UNCHANGED store
    /\ loc' = [Return(loc) EXCEPT !.rc_ret = "none"]
    /\ pc' = "loop_top"
    /\ UNCHANGED <<now, flags, thr, driver, cs, latency_profiler>>

\* ------------------------------------------ rapid_click_buy_button (paced)
\* lines 657-664
RcStart ==
    /\ pc = "rc_start"
    /\ stop_clicking' = FALSE
    /\ order_success' = FALSE
    /\ loc' = [loc EXCEPT !.click_count = 0, !.i = 0, !.success = FALSE]
    /\ hist' = [hist EXCEPT !.entered_after_stop = ~active, !.misses = 0]
    /\ pc' = "rc_top"
    /\ UNCHANGED <<now, active, refresh_requested, store, thr, driver, cs, latency_profiler>>

\* line 667: the flag test at the head of each schedule entry
StopsAtHead == order_success \/ stop_clicking \/ refresh_requested \/ ~active
\* A rapid click without the flag test after the pacing wait.
StopsAfterWaitNever == FALSE
\* line 670: the flag test after the pacing wait
StopsAfterWait == refresh_requested \/ stop_clicking \/ ~active

\* lines 666-668
RcTop ==
    /\ pc = "rc_top"
    /\ pc' = IF loc.i < MaxClicks /\ ~StopsAtHead THEN "rc_wait" ELSE "rc_done"
    /\ UNCHANGED <<now, flags, store, loc, hist, thr, driver, cs, latency_profiler>>

\* line 669: busy_wait_until(target_ns)
RcWait ==
    /\ pc = "rc_wait"
    /\ \E dt \in 0..1 : now' = Advance(now, dt)
    /\ hist' = AfterStop(hist)
    /\ pc' = "rc_recheck"
    /\ UNCHANGED <<flags, store, loc, thr, driver, cs, latency_profiler>>

\* lines 670-671
RcRecheck ==
    /\ pc = "rc_recheck"
    /\ pc' = IF StopsAfterWait THEN "rc_done" ELSE "rc_click"
    /\ UNCHANGED <<now, flags, store, loc, hist, thr, driver, cs, latency_profiler>>

\* A click_count that counts every schedule entry consumed.
CountClickEveryEntry(n, clicked) == n + 1

\* click_count after an attempt (line 675 counts the clicks performed)
CountClick(n, clicked) == IF clicked THEN n + 1 ELSE n

\* A rapid click that gives up at the first attempt without success.
AfterAttemptGivesUp(success, ret) == IF success THEN ret ELSE "rc_done"
\* lines 693 and 697-700: success returns to the caller; any other outcome,
\* the driver's errors included, goes on with the next schedule entry
AfterAttempt(success, ret) == IF success THEN ret ELSE "rc_top"

\* lines 672-700: one schedule entry.  The BUY button is found and clicked
\* or not (NoSuchElement / StaleElementReference / another error); after a
\* click the success messages are probed.
RcClick ==
    /\ pc = "rc_click"
    /\ \E clicked \in BOOLEAN, seen \in BOOLEAN :
         LET success == clicked /\ seen
         IN  /\ loc' = [loc EXCEPT !.click_count = CountClick(@, clicked),
                                   !.i = @ + 1,
                                   !.success = success]
             /\ hist' = [hist EXCEPT !.misses = IF clicked THEN @ ELSE @ + 1,
                                     !.clicks_after_stop =
                                         IF clicked /\ ~active THEN Sat(@) ELSE @]
             /\ order_success' = (order_success \/ success)
             /\ stop_clicking' = (stop_clicking \/ success)
             /\ pc' = AfterAttempt(success, loc.rc_ret)
    /\ UNCHANGED <<now, active, refresh_requested, store, thr, driver, cs, latency_profiler>>

\* lines 702-703
RcDone ==
    /\ pc = "rc_done"
    /\ loc' = [loc EXCEPT !.success = order_success]
    /\ pc' = loc.rc_ret
    /\ UNCHANGED <<now, flags, store, hist, thr, driver, cs, latency_profiler>>

\* --------------------------------------------------------- place_buy_order
\* The value place_buy_order returns is kept in loc.at_circuit.
PbReturn(l, result) ==
    [Return(l) EXCEPT !.at_circuit = result, !.pb_ret = "none", !.rc_ret = "none",
                      !.form_filling_mode = FALSE]

\* lines 971-972
PbStart ==
    /\ pc = "pb_start"
    /\ IF Interrupted
       THEN pc' = loc.pb_ret /\ loc' = PbReturn(loc, FALSE)
       ELSE pc' = "pb_session" /\ UNCHANGED loc
    /\ hist' = NewAttempt(hist)
    /\ UNCHANGED <<now, flags, store, thr, driver, cs, latency_profiler>>

\* lines 973-974
PbSession ==
    /\ pc = "pb_session"
    /\ \E dt \in 0..1, session_ok \in BOOLEAN :
         /\ now' = Advance(now, dt)
         /\ hist' = Disturbed(hist, ~session_ok)
         /\ IF session_ok
            THEN pc' = "pb_prepare" /\ UNCHANGED loc
            ELSE pc' = loc.pb_ret /\ loc' = PbReturn(loc, FALSE)
    /\ UNCHANGED <<flags, store, thr, driver, cs, latency_profiler>>

\* lines 975-976
PbPrepare ==
    /\ pc = "pb_prepare"
    /\ \E dt \in 0..1, form_ok \in BOOLEAN :
         /\ now' = Advance(now, dt)
         /\ IF Interrupted \/ ~form_ok
            THEN /\ pc' = loc.pb_ret
                 /\ loc' = PbReturn(loc, FALSE)
                 /\ hist' = Disturbed(hist, ~Interrupted)
            ELSE /\ pc' = "pb_fill"
                 /\ UNCHANGED <<loc, hist>>
    /\ UNCHANGED <<flags, store, thr, driver, cs, latency_profiler>>

\* lines 977-988: the price fill, the missing-price abort, the form-only mode
PbFill ==
    /\ pc = "pb_fill"
    /\ \E dt \in 0..1, shown \in PreCloseValues \cup {None},
          high \in HighValues \cup {None}, field_ok \in BOOLEAN :
         LET r == IF is_pre_open_hours(now)
                  THEN fill_price_pre_open(mem, shown, field_ok)
                  ELSE fill_price_regular(mem, DayOf(now), shown, high, field_ok)
         IN  /\ mem' = r.m
             /\ state_file' = Persist(state_file, r)
             /\ now' = Advance(now, dt)
             /\ CASE r.price = None ->
                       /\ pc' = loc.pb_ret
                       /\ loc' = PbReturn(loc, FALSE)
                       /\ hist' = [hist EXCEPT !.seen = Observe(@, r.m),
                                    !.read_on = ReadOn(@, mem, r.m, DayOf(now)),
                                               !.price_error = TRUE]
                  [] r.price # None /\ loc.form_filling_mode ->
                       /\ pc' = loc.pb_ret
                       /\ loc' = PbReturn(loc, FALSE)
                       /\ hist' = log_order([hist EXCEPT !.seen = Observe(@, r.m),
                                    !.read_on = ReadOn(@, mem, r.m, DayOf(now))],
                                             "FORM_FILLED", 0)
                  [] OTHER ->
                       /\ pc' = "rc_start"
                       /\ loc' = [loc EXCEPT !.price = r.price,
                                             !.at_circuit = r.at_circuit,
                                             !.rc_ret = "pb_after"]
                       /\ hist' = [hist EXCEPT !.seen = Observe(@, r.m),
                                    !.read_on = ReadOn(@, mem, r.m, DayOf(now))]
    /\ UNCHANGED <<flags, thr, driver, cs, latency_profiler>>

\* lines 991-1001
PbAfter ==
    /\ pc = "pb_after"
    /\ IF loc.success
       THEN /\ mem' = RecordSuccess(mem, loc.at_circuit)
            /\ state_file' = SavedLines(mem')
            /\ hist' = log_order([CountCircuit(hist, loc.at_circuit) EXCEPT !.misses = 0],
                                  "SUCCESS", loc.click_count)
       ELSE /\ hist' = log_order([hist EXCEPT !.misses = 0], "FAILED", loc.click_count)
            /\ UNCHANGED store
    /\ loc' = PbReturn(loc, loc.success /\ loc.at_circuit)
    /\ pc' = loc.pb_ret
    /\ UNCHANGED <<now, flags, thr, driver, cs, latency_profiler>>

\* ---------------------------------------------- _back_to_back_trading_loop
\* line 941
BtbTop ==
    /\ pc = "btb_top"
    /\ pc' = IF is_trading_hours(now) /\ active THEN "btb_f5" ELSE "loop_top"
    /\ hist' = NewAttempt(hist)
    /\ UNCHANGED <<now, flags, store, loc, thr, driver, cs, latency_profiler>>

\* lines 942-950: the F5 branch
BtbF5 ==
    /\ pc = "btb_f5"
    /\ IF ~refresh_requested
       THEN /\ pc' = "btb_session"
            /\ UNCHANGED <<now, loc, hist>>
       ELSE \E dt \in 0..1, outcome \in {"ok", "invalid", "raise"} :
              /\ now' = Advance(now, dt)
              /\ hist' = Disturbed(hist, outcome # "ok")
              /\ CASE outcome = "ok" ->
                        /\ loc' = [loc EXCEPT !.pb_ret = "btb_f5_clear",
                                              !.form_filling_mode = FALSE]
                        /\ pc' = "pb_start"
                   [] outcome = "invalid" ->
                        /\ loc' = [loc EXCEPT !.slept = 0, !.sleep_ret = "btb_f5_clear"]
                        /\ pc' = "isleep"
                   [] outcome = "raise" ->
                        /\ loc' = [loc EXCEPT !.slept = 0, !.sleep_ret = "loop_top"]
                        /\ pc' = "isleep"
    /\ UNCHANGED <<flags, store, thr, driver, cs, latency_profiler>>

\* lines 948-949 and 951-952
BtbF5Clear ==
    /\ pc = "btb_f5_clear"
    /\ refresh_requested' = FALSE
    /\ pc' = "btb_top"
    /\ UNCHANGED <<now, active, stop_clicking, order_success, store, loc, hist, thr, driver, cs, latency_profiler>>

\* line 959: the stop-after-circuit test
StopsAfterCircuit == mem.last_order_at_circuit

\* lines 954-964
BtbSession ==
    /\ pc = "btb_session"
    /\ \E dt \in 0..1, session_ok \in BOOLEAN :
         /\ now' = Advance(now, dt)
         /\ hist' = Disturbed(hist, ~session_ok)
         /\ IF ~session_ok
            THEN /\ loc' = [loc EXCEPT !.slept = 0, !.sleep_ret = "btb_top"]
                 /\ pc' = "isleep"
            ELSE IF StopsAfterCircuit
            THEN /\ pc' = "loop_top"
                 /\ UNCHANGED loc
            ELSE /\ loc' = [loc EXCEPT !.pb_ret = "btb_after", !.form_filling_mode = FALSE]
                 /\ pc' = "pb_start"
    /\ UNCHANGED <<flags, store, thr, driver, cs, latency_profiler>>

\* lines 965-967
BtbAfter ==
    /\ pc = "btb_after"
    /\ pc' = IF loc.at_circuit THEN "loop_top" ELSE "btb_top"
    /\ loc' = [loc EXCEPT !.at_circuit = FALSE]
    /\ UNCHANGED <<now, flags, store, hist, thr, driver, cs, latency_profiler>>

\* ------------------------------------------------------------ the hotkeys

\* A stop that withdraws the pending refresh request.
stop_bot_clearing ==
    /\ Running
    /\ active' = FALSE
    /\ stop_clicking' = TRUE
    /\ refresh_requested' = FALSE
    /\ hist' = [hist EXCEPT !.undisturbed = FALSE,
                            !.stop_at = IF @ = "none" THEN pc ELSE @]
    /\ UNCHANGED <<now, pc, order_success, store, loc, thr, driver, cs, latency_profiler>>

\* stop_bot, lines 802-806
stop_bot ==
    /\ Running
    /\ active' = FALSE
    /\ stop_clicking' = TRUE
    /\ refresh_requested' = TRUE
    /\ hist' = [hist EXCEPT !.undisturbed = FALSE,
                            !.stop_at = IF @ = "none" THEN pc ELSE @]
    /\ UNCHANGED <<now, pc, order_success, store, loc, thr, driver, cs, latency_profiler>>

\* f5_callback, lines 797-799
f5_callback ==
    /\ Running
    /\ refresh_requested' = TRUE
    /\ hist' = [hist EXCEPT !.undisturbed = FALSE]
    /\ UNCHANGED <<now, pc, active, stop_clicking, order_success, store, loc, thr, driver, cs, latency_profiler>>

\* ------------------------------------------------------ crash and relaunch
\* The process dies at any point; only the state file survives.
Crash ==
    /\ Running
    /\ hist.restarts < MaxRestarts
    /\ pc' = "crashed"
    /\ hist' = [hist EXCEPT !.undisturbed = FALSE]
    /\ UNCHANGED <<now, flags, store, loc, thr, driver, cs, latency_profiler>>

\* While the process is down the clock goes on.
Down ==
    /\ pc \in {"crashed", "done"}
    /\ now' = NextGrid(now)
    /\ now' # now
    /\ UNCHANGED <<pc, flags, store, loc, hist, thr, driver, cs, latency_profiler>>

\* NepseTrader.__init__ (lines 229-271) of a relaunched process.
Restart ==
    /\ pc \in {"crashed", "done"}
    /\ hist.restarts < MaxRestarts
    /\ mem' = _restore_state_from_local_storage(state_file)
    /\ active' = TRUE
    /\ refresh_requested' = FALSE
    /\ stop_clicking' = FALSE
    /\ order_success' = FALSE
    /\ loc' = InitLoc
    /\ hist' = [hist EXCEPT !.restarts = @ + 1, !.stop_at = "none", !.misses = 0,
                            !.clicks_after_stop = 0, !.sleeps_after_stop = 0,
                            !.entered_after_stop = FALSE, !.read_on = None]
    /\ pc' = "main_start"
    /\ UNCHANGED <<now, state_file, thr, driver, cs, latency_profiler>>

\* ------------------------------------------- the threaded rapid click
\* The second trader of src/Integrated.py (lines 1065-1914) clicks from four
\* threads.  Only its dispatch is modelled: the session loop's test of
\* active, the call, the threads, and its stop hotkey.
main == <<now, pc, refresh_requested, mem, state_file, loc, hist, driver, cs, latency_profiler>>

InitThreaded ==
    /\ now = Min(Grid)
    /\ pc = "threaded"
    /\ active = TRUE
    /\ refresh_requested = FALSE
    /\ stop_clicking = FALSE
    /\ order_success = FALSE
    /\ mem = InitMem
    /\ state_file = <<>>
    /\ loc = InitLoc
    /\ hist = InitHist
    /\ thr = [InitThr EXCEPT !.caller = "session"]
    /\ driver = InitDriver
    /\ cs = InitCs
    /\ latency_profiler = InitProfiler

\* _trading_session_loop, line 1785: while self.is_trading_hours() and self.active
TSession ==
    /\ thr.caller = "session"
    /\ thr' = [thr EXCEPT !.caller = IF active THEN "place" ELSE "stopped"]
    /\ UNCHANGED <<main, active, stop_clicking, order_success>>

\* place_buy_order, lines 1826-1845: check_session_validity finds the
\* session or logs in again and meets the captcha (lines 1401-1408,
\* 1368-1372); then the form is filled and the dispatch is entered, or the
\* order is abandoned before it
TPlace ==
    /\ thr.caller = "place"
    /\ \E captcha \in BOOLEAN, form_ok \in BOOLEAN :
         thr' = IF captcha
                THEN [thr EXCEPT !.caller = "captcha", !.polls = 0, !.polls_after_stop = 0]
                ELSE [thr EXCEPT !.caller = IF form_ok THEN "clear" ELSE "session"]
    /\ UNCHANGED <<main, active, stop_clicking, order_success>>

\* login, line 1374: while tm.time() - start < CAPTCHA_FILL_WAIT
CaptchaWaitGoesOn == thr.polls < MaxPolls

\* login, lines 1374-1380: the captcha wait.  Each iteration probes for the
\* dashboard and sleeps a second; the login succeeds when the dashboard
\* shows, and fails when the time is up.
TCaptcha ==
    /\ thr.caller = "captcha"
    /\ IF CaptchaWaitGoesOn
       THEN \E dashboard \in BOOLEAN, form_ok \in BOOLEAN :
              thr' = IF dashboard
                     THEN [thr EXCEPT !.caller = IF form_ok THEN "clear" ELSE "session",
                                      !.polls = 0, !.polls_after_stop = 0]
                     ELSE [thr EXCEPT !.polls = @ + 1,
                                      !.polls_after_stop = IF active THEN @ ELSE Sat(@)]
       ELSE thr' = [thr EXCEPT !.caller = "session", !.polls = 0, !.polls_after_stop = 0]
    /\ UNCHANGED <<main, active, stop_clicking, order_success>>

\* rapid_click_buy_button, lines 1562-1565
TClear ==
    /\ thr.caller = "clear"
    /\ stop_clicking' = FALSE
    /\ order_success' = FALSE
    /\ thr' = [thr EXCEPT !.caller = "spawn", !.click_count = 0,
                          !.t = [i \in Threads |-> "unstarted"],
                          !.tmp = [i \in Threads |-> 0]]
    /\ UNCHANGED <<main, active>>

\* lines 1600-1604: the threads are started one after the other
TSpawn ==
    /\ thr.caller = "spawn"
    /\ LET waiting == {i \in Threads : thr.t[i] = "unstarted"}
       IN  IF waiting = {}
           THEN thr' = [thr EXCEPT !.caller = "join"]
           ELSE thr' = [thr EXCEPT !.t[Min(waiting)] = "while"]
    /\ UNCHANGED <<main, active, stop_clicking, order_success>>

\* line 1574: while not order_success.is_set() and not stop_clicking.is_set()
ClickingGoesOn == ~order_success /\ ~stop_clicking
TWhile(i) ==
    /\ thr.t[i] = "while"
    /\ thr' = [thr EXCEPT !.t[i] = IF ClickingGoesOn THEN "click" ELSE "exit"]
    /\ UNCHANGED <<main, active, stop_clicking, order_success>>

\* lines 1576-1577 and 1593-1596: find_element, then the thread enters
\* execute_script, which waits for the browser and holds no lock; a missing
\* or stale button sleeps and loops
TClick(i) ==
    /\ thr.t[i] = "click"
    /\ \E found \in BOOLEAN :
         thr' = [thr EXCEPT !.t[i] = IF found THEN "clicking" ELSE "while"]
    /\ UNCHANGED <<main, active, stop_clicking, order_success>>

\* lines 1577-1578: execute_script returns, the click is done; the read of
\* click_count
TClicked(i) ==
    /\ thr.t[i] = "clicking"
    /\ thr' = [thr EXCEPT !.t[i] = "probe", !.tmp[i] = thr.click_count]
    /\ UNCHANGED <<main, active, stop_clicking, order_success>>

\* lines 1578 and 1581-1592: the write of click_count, then the success probe
TProbe(i) ==
    /\ thr.t[i] = "probe"
    /\ \E seen \in BOOLEAN :
         /\ thr' = [thr EXCEPT !.t[i] = IF seen THEN "exit" ELSE "while",
                               !.tmp[i] = 0,
                               !.click_count = Sat(thr.tmp[i])]
         /\ order_success' = (order_success \/ seen)
         /\ stop_clicking' = (stop_clicking \/ seen)
    /\ UNCHANGED <<main, active>>

click_forever(i) == TWhile(i) \/ TClick(i) \/ TClicked(i) \/ TProbe(i)

\* lines 1605-1608: join, then return click_count, order_success.is_set()
TJoin ==
    /\ thr.caller = "join"
    /\ \A i \in Threads : thr.t[i] = "exit"
    /\ thr' = [thr EXCEPT !.caller = "session",
                          !.result = [click_count |-> thr.click_count,
                                      success |-> order_success]]
    /\ UNCHANGED <<main, active, stop_clicking, order_success>>

\* stop_bot of the threaded trader, lines 1733-1736
threaded_stop_bot ==
    /\ thr.caller \notin {"off", "stopped"}
    /\ active
    /\ active' = FALSE
    /\ stop_clicking' = TRUE
    /\ UNCHANGED <<main, order_success, thr, driver, cs, latency_profiler>>

\* ------------------------------------------------------------ the systems
MainThread ==
    \/ MainStart \/ LoopTop \/ Phase \/ F5Check \/ F5Refresh \/ F5Clear
    \/ Session \/ Finally \/ SleepCheck \/ SleepStep
    \/ SbWait \/ SbWaitSleep \/ SbActive \/ SbRefresh \/ SbPrepare \/ SbFill
    \/ SbFine \/ SbFineDelta \/ SbFineSleep \/ SbFire \/ SbAfter
    \/ RcStart \/ RcTop \/ RcWait \/ RcRecheck \/ RcClick \/ RcDone
    \/ PbStart \/ PbSession \/ PbPrepare \/ PbFill \/ PbAfter
    \/ BtbTop \/ BtbF5 \/ BtbF5Clear \/ BtbSession \/ BtbAfter

\* The trader with its two hotkeys.
Next == MainThread \/ stop_bot \/ f5_callback
Spec == Init /\ [][Next]_vars

\* The trader launched just before the pre-open window, its main thread
\* running on while it can take a step.
InitEarly == Init /\ now = Min(StartTimes)
FairSpec == InitEarly /\ [][Next]_vars /\ WF_vars(MainThread)

\* The trader launched with a --duration that outlasts the day.
InitLong ==
    /\ now = Min(StartTimes)
    /\ pc = "main_start"
    /\ active = TRUE
    /\ refresh_requested = FALSE
    /\ stop_clicking = FALSE
    /\ order_success = FALSE
    /\ mem = InitMem
    /\ state_file = <<>>
    /\ loc = [InitLoc EXCEPT !.run_duration_hours = 5 * run_duration_hours]
    /\ hist = InitHist
    /\ thr = InitThr
    /\ driver = InitDriver
    /\ cs = InitCs
    /\ latency_profiler = InitProfiler
LongSpec == InitLong /\ [][Next]_vars

\* The trader with F5, crashes and relaunches.
NextCrash == MainThread \/ f5_callback \/ Crash \/ Down \/ Restart
CrashSpec == Init /\ [][NextCrash]_vars

\* The threaded trader's dispatch with its stop hotkey.
NextThreaded ==
    \/ TSession \/ TPlace \/ TCaptcha \/ TClear \/ TSpawn \/ TJoin
    \/ (\E i \in Threads : click_forever(i))
    \/ threaded_stop_bot
ThreadSpec == InitThreaded /\ [][NextThreaded]_vars

\* --------------------------------------------------- the session recovery
\* check_session_validity of the paced trader (lines 459-485) with login and
\* navigate_to_order_page, and the callers on the main loop's order path:
\* the main loop (lines 821, 867-887), place_buy_order (lines 971-976) and
\* prepare_order_form (lines 724-733).  driver.auth says the site holds a
\* logged-in session, driver.page what the browser shows.
others == <<now, pc, flags, store, loc, hist, thr, latency_profiler>>

\* //span[contains(text(), 'Dashboard')] is on the pages of a logged-in user
DashboardShown(d) == d.auth /\ d.page \in {"dashboard", "order"}

Call(caller) == [cs EXCEPT !.pc = "probe", !.caller = caller, !.path = "none"]
\* The return to the caller (lines 867, 973 and 726).
ReturnCheck(ok) ==
    [cs EXCEPT !.pc = CASE cs.caller = "main" -> "checked"
                        [] cs.caller = "place" -> "place_checked"
                        [] cs.caller = "prepare" -> "prepare_checked",
               !.caller = "none", !.path = "none", !.session_ok = ok]
\* An exception that leaves check_session_validity: the main loop catches it
\* at line 885, place_buy_order and prepare_order_form return False.
RaiseFromCheck ==
    [cs EXCEPT !.pc = IF cs.caller = "main" THEN "error" ELSE "loop",
               !.caller = "none", !.path = "none", !.session_ok = FALSE]

\* A recovery that answers for the login alone.
RecoveredOnLogin(login_ok, nav_ok) == login_ok
\* lines 464-469 and 479-485: what the recovery returns
Recovered(login_ok, nav_ok) == login_ok /\ nav_ok

\* lines 461 and 470: the probe for the Dashboard marker; a dead browser
\* raises WebDriverException
CsProbe ==
    /\ cs.pc = "probe"
    /\ cs' = IF ~driver.alive
             THEN [cs EXCEPT !.pc = "recreate", !.path = "driver"]
             ELSE IF DashboardShown(driver)
             THEN ReturnCheck(TRUE)
             ELSE [cs EXCEPT !.pc = "refresh", !.path = "expired"]
    /\ UNCHANGED <<others, driver>>

\* line 463: self.driver.refresh()
CsRefresh ==
    /\ cs.pc = "refresh"
    /\ cs' = IF ~driver.alive
             THEN [cs EXCEPT !.pc = "recreate", !.path = "driver"]
             ELSE [cs EXCEPT !.pc = "login"]
    /\ UNCHANGED <<others, driver>>

\* lines 464-466 and 479-481: login() (lines 389-445); it returns False on
\* every exception, the captcha wait that ends without the Dashboard included
CsLogin ==
    /\ cs.pc = "login"
    /\ \E login_ok \in BOOLEAN :
         IF driver.alive /\ login_ok
         THEN /\ driver' = [driver EXCEPT !.auth = TRUE, !.page = "dashboard"]
              /\ cs' = [cs EXCEPT !.pc = "navigate"]
         ELSE /\ driver' = [driver EXCEPT !.page = "login"]
              /\ cs' = ReturnCheck(Recovered(FALSE, FALSE))
    /\ UNCHANGED others

\* lines 467-470 and 482-485: navigate_to_order_page() (lines 447-457)
CsNavigate ==
    /\ cs.pc = "navigate"
    /\ \E nav_ok \in BOOLEAN :
         IF driver.alive /\ driver.auth /\ nav_ok
         THEN /\ driver' = [driver EXCEPT !.page = "order"]
              /\ cs' = ReturnCheck(Recovered(TRUE, TRUE))
         ELSE /\ driver' = [driver EXCEPT !.page = IF driver.auth THEN "dashboard"
                                                                 ELSE "login"]
              /\ cs' = ReturnCheck(Recovered(TRUE, FALSE))
    /\ UNCHANGED others

\* lines 471-478: quit, get_chrome_driver, a new WebDriverWait; the profile
\* directory may or may not have kept the login
CsRecreate ==
    /\ cs.pc = "recreate"
    /\ \E started \in BOOLEAN, kept \in BOOLEAN :
         IF started
         THEN /\ driver' = [alive |-> TRUE, auth |-> driver.auth /\ kept, page |-> "blank"]
              /\ cs' = [cs EXCEPT !.pc = "login"]
         ELSE /\ driver' = [driver EXCEPT !.alive = FALSE]
              /\ cs' = RaiseFromCheck
    /\ UNCHANGED others

check_session_validity == CsProbe \/ CsRefresh \/ CsLogin \/ CsNavigate \/ CsRecreate

\* lines 821 and 867
SessionLoop ==
    /\ cs.pc = "loop"
    /\ cs' = IF LoopCondition THEN Call("main") ELSE [cs EXCEPT !.pc = "done"]
    /\ UNCHANGED <<others, driver>>

\* lines 868-882
SessionChecked ==
    /\ cs.pc = "checked"
    /\ cs' = [cs EXCEPT !.pc = IF cs.session_ok THEN "place" ELSE "backoff"]
    /\ UNCHANGED <<others, driver>>

\* lines 870-871: interruptible_sleep(1); continue
SessionBackoff ==
    /\ cs.pc = "backoff"
    /\ cs' = [cs EXCEPT !.pc = "loop"]
    /\ UNCHANGED <<others, driver>>

\* lines 885-887: except Exception: interruptible_sleep(0.5)
LoopError ==
    /\ cs.pc = "error"
    /\ cs' = [cs EXCEPT !.pc = "loop"]
    /\ UNCHANGED <<others, driver>>

\* lines 971-973: place_buy_order up to its session check
PlaceStart ==
    /\ cs.pc = "place"
    /\ cs' = IF Interrupted THEN [cs EXCEPT !.pc = "loop"] ELSE Call("place")
    /\ UNCHANGED <<others, driver>>

\* lines 973-975
PlaceChecked ==
    /\ cs.pc = "place_checked"
    /\ cs' = [cs EXCEPT !.pc = IF cs.session_ok THEN "prepare" ELSE "loop"]
    /\ UNCHANGED <<others, driver>>

\* lines 724-726: prepare_order_form up to its session check
PrepareStart ==
    /\ cs.pc = "prepare"
    /\ cs' = IF Interrupted THEN [cs EXCEPT !.pc = "loop"] ELSE Call("prepare")
    /\ UNCHANGED <<others, driver>>

\* lines 726-735: the Buy/Sell probe, and the clicks on the Order Management
\* and Buy/Sell tabs when it is absent
PrepareChecked ==
    /\ cs.pc = "prepare_checked"
    /\ IF ~cs.session_ok
       THEN cs' = [cs EXCEPT !.pc = "loop"] /\ UNCHANGED driver
       ELSE IF driver.alive /\ driver.auth /\ driver.page = "order"
       THEN cs' = [cs EXCEPT !.pc = "fill"] /\ UNCHANGED driver
       ELSE \E tabs_ok \in BOOLEAN :
              IF driver.alive /\ driver.auth /\ tabs_ok
              THEN /\ driver' = [driver EXCEPT !.page = "order"]
                   /\ cs' = [cs EXCEPT !.pc = "fill"]
              ELSE /\ cs' = [cs EXCEPT !.pc = "loop"]
                   /\ UNCHANGED driver
    /\ UNCHANGED others

\* lines 736-764 and 977-1001: the form fill, the price fill, the dispatch
OrderAction ==
    /\ cs.pc = "fill"
    /\ cs' = [cs EXCEPT !.pc = "loop"]
    /\ UNCHANGED <<others, driver>>

\* The site ends the login.
SessionExpires ==
    /\ cs.pc \notin {"off", "done"}
    /\ driver.auth
    /\ driver' = [driver EXCEPT !.auth = FALSE, !.page = "login"]
    /\ UNCHANGED <<others, cs>>

\* The browser window is closed or the browser process dies.
BrowserCloses ==
    /\ cs.pc \notin {"off", "done"}
    /\ driver.alive
    /\ driver' = [driver EXCEPT !.alive = FALSE]
    /\ UNCHANGED <<others, cs>>

\* The paced trader's main loop on its order path, with the site, the
\* browser and the stop hotkey.
InitSession ==
    /\ now = Min(StartTimes)
    /\ pc = "main_start"
    /\ active = TRUE
    /\ refresh_requested = FALSE
    /\ stop_clicking = FALSE
    /\ order_success = FALSE
    /\ mem = InitMem
    /\ state_file = <<>>
    /\ loc = [InitLoc EXCEPT !.end_time = now + InitLoc.run_duration_hours * 3600]
    /\ hist = InitHist
    /\ thr = InitThr
    /\ driver = InitDriver
    /\ cs = [InitCs EXCEPT !.pc = "loop"]
    /\ latency_profiler = InitProfiler
NextSession ==
    \/ SessionLoop \/ SessionChecked \/ SessionBackoff \/ LoopError
    \/ PlaceStart \/ PlaceChecked \/ PrepareStart \/ PrepareChecked \/ OrderAction
    \/ check_session_validity
    \/ SessionExpires \/ BrowserCloses \/ stop_bot
SessionSpec == InitSession /\ [][NextSession]_vars

\* ---------------------------------------------------- the latency profiler
\* LatencyProfiler (lines 204-226) under every order of calls.
besides == <<now, pc, flags, store, loc, hist, thr, driver, cs>>

\* lines 209-211
_reset(p) == [p EXCEPT !.boundary_order_time = None, !.server_response_time = None]
\* line 220: both marks hold a reading (a reading of the clock is never 0)
BothMarked(p) == p.boundary_order_time # None /\ p.server_response_time # None
\* lines 219-226
record(p) == _reset(IF BothMarked(p) THEN [p EXCEPT !.lines = @ + 1] ELSE p)

\* lines 213-214
mark_boundary_click ==
    /\ \E t \in 1..MaxNs :
         latency_profiler' = [latency_profiler EXCEPT !.boundary_order_time = t,
                                                      !.last = "mark_boundary_click"]
    /\ UNCHANGED besides

\* lines 216-217
mark_server_response ==
    /\ \E t \in 1..MaxNs :
         latency_profiler' = [latency_profiler EXCEPT !.server_response_time = t,
                                                      !.last = "mark_server_response"]
    /\ UNCHANGED besides

\* a call of record (line 690)
ProfilerRecord ==
    /\ latency_profiler.lines < MaxLines
    /\ latency_profiler' = [record(latency_profiler) EXCEPT !.last = "record"]
    /\ UNCHANGED besides

\* a call of _reset (line 923)
ProfilerReset ==
    /\ latency_profiler' = [_reset(latency_profiler) EXCEPT !.last = "_reset"]
    /\ UNCHANGED besides

NextProfiler ==
    mark_boundary_click \/ mark_server_response \/ ProfilerRecord \/ ProfilerReset
ProfilerSpec == InitEarly /\ [][NextProfiler]_vars

\* ------------------------------------------------------------- the clock
\* One day of datetime.now(), second by second, for the session tests of
\* lines 374-387.
Tick ==
    /\ now + 1 < DaySeconds
    /\ now' = now + 1
    /\ UNCHANGED <<pc, flags, store, loc, hist, thr, driver, cs, latency_profiler>>
InitClock ==
    /\ now = 0
    /\ pc = "main_start"
    /\ active = TRUE
    /\ refresh_requested = FALSE
    /\ stop_clicking = FALSE
    /\ order_success = FALSE
    /\ mem = InitMem
    /\ state_file = <<>>
    /\ loc = InitLoc
    /\ hist = InitHist
    /\ thr = InitThr
    /\ driver = InitDriver
    /\ cs = InitCs
    /\ latency_profiler = InitProfiler
ClockSpec == InitClock /\ [][Tick]_vars

\* ------------------------------------------------------------- properties
\* The positions of the main thread inside rapid_click_buy_button, and the
\* two positions it returns to.
RcPcs == {"rc_start", "rc_top", "rc_wait", "rc_recheck", "rc_click", "rc_done"}
AfterDispatch == pc \in {"sb_after", "pb_after"}
StoppedInDispatch == hist.stop_at \in RcPcs
Started == loc.end_time - run_duration_hours * 3600

\* C1: on every trading date at most one dispatch at the circuit price
\* succeeds, whatever the main loop, the back-to-back loop and F5 do.
C1_OneCircuitOrderPerDate ==
    \A d \in DOMAIN hist.circuit_orders : hist.circuit_orders[d] <= 1

\* C2: after a restart, the trading date, the circuit limit, the regular
\* session price, circuit_hit and last_order_at_circuit in memory are the
\* ones the state file holds.
RestoredKeys ==
    {"trading_date", "circuit_limit_price_for_date", "regular_session_price_for_date",
     "circuit_hit_for_date", "last_order_at_circuit"}
C2_RestoreYieldsSaved ==
    (pc = "main_start" /\ hist.restarts > 0 /\ state_file # <<>>)
        => \A k \in 1..Len(state_file) :
               state_file[k][1] \in RestoredKeys => SavedLines(mem)[k] = state_file[k]

\* C3 as stated: a paced rapid click that sees success on its k-th schedule
\* entry returns k as its count.
C3_CountIsEntryNumber ==
    (AfterDispatch /\ loc.success) => loc.click_count = loc.i

\* C3: a paced rapid click that sees success on its k-th schedule entry
\* returns the number of those k entries on which BUY was clicked (k less
\* the entries that failed before the click), reports the success once, and
\* consumes no further entry.
C3_CountIsClicksPerformed ==
    loc.success => /\ AfterDispatch
                   /\ order_success
                   /\ loc.click_count >= 1
                   /\ loc.click_count = loc.i - hist.misses
C3_Witness ==
    AfterDispatch /\ loc.success /\ hist.misses > 0 /\ loc.i = 2 /\ loc.click_count = 1

\* C4: in the threaded rapid click, once order_success is set no thread
\* clicks BUY again.
C4_NoClickAfterSuccess ==
    [][order_success =>
          \A i \in Threads : ~(thr.t[i] = "click" /\ thr'.t[i] = "clicking")]_vars

\* C5 as stated: a stop during the paced rapid click, before success is
\* seen, lets no click through after the next flag test and makes the
\* function return success = false.
C5_StopReturnsFalse ==
    StoppedInDispatch =>
        /\ hist.clicks_after_stop <= 1
        /\ hist.stop_at # "rc_click" => hist.clicks_after_stop = 0
        /\ AfterDispatch => ~loc.success

\* C5: a stop during the paced rapid click lets no click through after the
\* next flag test; the function returns success = false unless the stop
\* arrived after the last flag test (line 670) of an entry whose click then
\* found the success message.
C5_StopEndsClicking ==
    StoppedInDispatch =>
        /\ hist.clicks_after_stop <= 1
        /\ hist.stop_at # "rc_click" => hist.clicks_after_stop = 0
        /\ (AfterDispatch /\ loc.success) =>
              hist.stop_at = "rc_click" /\ hist.clicks_after_stop = 1
C5_Witness ==
    /\ StoppedInDispatch /\ hist.stop_at = "rc_wait"
    /\ AfterDispatch /\ ~loc.success /\ loc.click_count = 1

C7_StopNeverLost ==
    [][\A i \in Threads :
          (~active /\ thr.t[i] = "while" /\ thr'.t[i] # "while") => thr'.t[i] = "exit"]_vars

\* C8: once end_time has passed, the main loop is not waiting for a
\* boundary and starts no boundary dispatch.
C8_NothingAfterEndTime ==
    pc \in {"sb_wait_sleep", "sb_fire"} => now < loc.end_time

\* C9: in a run without F5, stop or failure that starts before the pre-open
\* window, no boundary wait begun before 11:00 aims past that day's 11:00,
\* and by the next day the 10:30 and the 11:00 dispatch have both fired.
C9_BothBoundariesFire ==
    (hist.undisturbed /\ Started < PreopenStart /\ pc \notin {"main_start", "finally", "done"})
        => /\ (pc \in {"sb_wait", "sb_wait_sleep"} /\ now <= RegularBoundary)
                 => loc.boundary_time <= RegularBoundary
           /\ DayOf(now) >= 1 => {<<0, "PREOPEN">>, <<0, "REGULAR">>} \subseteq hist.fired

\* C10: in trading hours, after a boundary order attempt of the day has
\* completed without a circuit order, stop or F5, the main loop is not
\* idling in the wait for a boundary of a later day.
C10_NextOrderImmediately ==
    ~ /\ pc = "sb_wait_sleep"
      /\ is_trading_hours(now)
      /\ active /\ ~refresh_requested /\ ~mem.last_order_at_circuit
      /\ \E f \in hist.fired : f[1] = DayOf(now)
      /\ DayOf(loc.boundary_time) > DayOf(now)


\* What fill_price_regular can return in the present state, one result for
\* each thing the page can show.
RegularFills ==
    {fill_price_regular(mem, DayOf(now), shown, high, field_ok) :
        shown \in PreCloseValues \cup {None}, high \in HighValues \cup {None},
        field_ok \in BOOLEAN}

\* C11: place_buy_order called for an F5 request (from the main loop or the
\* back-to-back loop) goes on to the session check and the form unless the
\* bot was stopped.
C11_F5PlacesOrder ==
    [][(pc = "pb_start" /\ loc.pb_ret \in {"f5_clear", "btb_f5_clear"} /\ active)
          => pc' = "pb_session"]_vars

\* C12: while memory holds a trading date for which circuit_hit_for_date
\* was true before, circuit_hit_for_date is true.
C12_CircuitHitSticks ==
    (mem.trading_date = hist.seen.day /\ hist.seen.hit) => mem.circuit_hit_for_date

\* C13: while memory holds a trading date for which a circuit limit was
\* set before, circuit_limit_price_for_date is that limit.
C13_CircuitLimitFixed ==
    (mem.trading_date = hist.seen.day /\ hist.seen.limit # None)
        => mem.circuit_limit_price_for_date = hist.seen.limit

\* C14: the regular session price in memory never exceeds the circuit
\* limit in memory, and no price fill_price_regular returns exceeds the
\* circuit limit it leaves in memory.
C14_PriceWithinLimit ==
    /\ (mem.regular_session_price_for_date # None /\ mem.circuit_limit_price_for_date # None)
          => mem.regular_session_price_for_date <= mem.circuit_limit_price_for_date
    /\ \A r \in RegularFills :
          r.price # None => /\ r.m.circuit_limit_price_for_date # None
                            /\ r.price <= r.m.circuit_limit_price_for_date
C14_Witness ==
    /\ mem.circuit_hit_for_date
    /\ mem.regular_session_price_for_date = mem.circuit_limit_price_for_date
    /\ pc = "sb_fine" /\ loc.boundary_type = "REGULAR" /\ loc.price = mem.circuit_limit_price_for_date

\* C15: once circuit_hit_for_date is true for today, every fill_price_regular
\* leaves the circuit limit as the submit price and reports at_circuit,
\* whatever the High field shows; a price it returns is that limit.
C15_StaysAtCircuit ==
    (mem.circuit_hit_for_date /\ mem.trading_date = DayOf(now)) =>
        \A r \in RegularFills :
            /\ r.at_circuit
            /\ r.m.circuit_hit_for_date
            /\ r.m.circuit_limit_price_for_date = mem.circuit_limit_price_for_date
            /\ r.m.regular_session_price_for_date = mem.circuit_limit_price_for_date
            /\ r.price \in {None, mem.circuit_limit_price_for_date}
C15_Witness ==
    /\ pc = "sb_fill" /\ loc.boundary_type = "REGULAR"
    /\ mem.circuit_hit_for_date /\ mem.trading_date = DayOf(now)

\* C16: on a date other than trading_date the reset clears the per-day
\* fields and sets trading_date; on the same date it changes nothing and
\* does not save; so a second call on the same date changes nothing.
C16_ResetOncePerDate ==
    \A today \in 0..(LastDay + 1) :
        LET m1 == _reset_daily_limits_if_needed(mem, today)
        IN  /\ mem.trading_date = today => (m1 = mem /\ ~NeedsReset(mem, today))
            /\ mem.trading_date # today =>
                  /\ NeedsReset(mem, today)
                  /\ m1.trading_date = today
                  /\ m1.circuit_limit_price_for_date = None
                  /\ m1.regular_session_price_for_date = None
                  /\ ~m1.circuit_hit_for_date
                  /\ m1.last_known_high = None
                  /\ ~m1.last_order_at_circuit
            /\ ~NeedsReset(m1, today)
            /\ _reset_daily_limits_if_needed(m1, today) = m1
C16_Witness ==
    /\ mem.trading_date = 0 /\ DayOf(now) = 1
    /\ mem.circuit_limit_price_for_date # None /\ mem.circuit_hit_for_date
    /\ pc = "pb_fill" /\ ~is_pre_open_hours(now)

\* C17: the back-to-back loop's stop-after-circuit test never acts on a
\* last_order_at_circuit that was set on an earlier date.
C17_NoStaleCircuitStop ==
    (pc = "btb_session" /\ mem.last_order_at_circuit) => mem.trading_date = DayOf(now)

\* C18: the boundary scheduler does not dispatch without a price.
C18_NeverFiresBlind ==
    pc = "sb_fire" => loc.price # None

\* C19: when a stop or refresh request is already raised as the fine wait
\* of the boundary scheduler tests its loop condition, the scheduler does
\* not go on to the dispatch.
C19_RequestAbortsScheduler ==
    [][(pc = "sb_fine" /\ Interrupted) => pc' # "sb_fire"]_vars

\* C20: without a stop or refresh request, the fine wait of the boundary
\* scheduler does not return without a dispatch.
C20_BoundaryAlwaysFires ==
    [][(pc = "sb_fine_delta" /\ ~Interrupted) => pc' # "loop_top"]_vars

\* C21: the boundary scheduler starts its dispatch only with the clock at
\* or after boundary_time, the rapid click it calls beginning there.
C21_NeverFiresEarly ==
    /\ pc = "sb_fire" => now >= loc.boundary_time
    /\ (pc = "rc_start" /\ loc.rc_ret = "sb_after") => now >= loc.boundary_time
C21_Witness ==
    pc = "rc_start" /\ loc.rc_ret = "sb_after" /\ now = loc.boundary_time

\* C22: with a stop or refresh request raised, the loop test of _wait_until
\* leaves the wait, whatever the clock shows; a sleep the request falls
\* into is followed by that loop test with the request still raised, so at
\* most one sleep increment follows the request.
C22_WaitReturnsOnRequest ==
    /\ [][(pc = "sb_wait" /\ Interrupted /\ pc' # pc) => pc' = "sb_active"]_vars
    /\ [][(pc = "sb_wait_sleep" /\ Interrupted /\ pc' # pc)
             => (pc' = "sb_wait" /\ Interrupted')]_vars
C22_Witness ==
    /\ pc = "sb_active" /\ refresh_requested /\ active
    /\ now < loc.boundary_time - refresh_margin

\* C23: a refresh request that arrives during the pacing wait of a rapid
\* click, with no stop request, does not end the click loop.
C23_RefreshLeavesDispatch ==
    [][(pc = "rc_recheck" /\ refresh_requested /\ active /\ ~stop_clicking)
          => pc' # "rc_done"]_vars

\* C24: after stop_bot the captcha wait of login polls at most once more.
C24_CaptchaWaitSeesStop ==
    thr.caller = "captcha" => thr.polls_after_stop <= 1

\* C28: the boundary the main loop hands to the scheduler is the nearer of
\* the next pre-open boundary and the next continuous boundary.
C28_NearestBoundary ==
    [][(pc = "phase" /\ pc' = "sb_wait")
          => loc'.boundary_time = Min({preopen_boundary(now), reg_boundary(now)})]_vars

\* line 1577: thread i is inside execute_script
InDriver(i) == thr.t[i] = "clicking"

\* C29: at any instant at most one thread is executing a driver operation.
C29_OneThreadInDriver == Cardinality({i \in Threads : InDriver(i)}) <= 1

\* The lines of the state file that carry the trading date, the circuit
\* limit, the submit price, circuit_hit and last_order_at_circuit.
WriteThroughLines == {4, 5, 6, 7, 9}
FileHolds(m, file) ==
    /\ Len(file) = Len(SavedLines(m))
    /\ \A i \in WriteThroughLines : file[i] = SavedLines(m)[i]
UsesRegularFill ==
    \/ pc = "sb_fill" /\ loc.boundary_type # "PREOPEN"
    \/ pc = "pb_fill" /\ ~is_pre_open_hours(now)

\* C30: with a writable state file, when fill_price_regular returns and
\* when an order function has recorded a successful dispatch, the file holds
\* the trading date, circuit limit, submit price, circuit_hit and
\* last_order_at_circuit that memory holds; and a dispatch at the circuit
\* price starts only with circuit_hit_for_date True in the file.
C30_WriteThrough ==
    /\ [][(UsesRegularFill /\ pc' \notin {pc, "crashed"})
             => FileHolds(mem', state_file')]_vars
    /\ [][(pc \in {"sb_after", "pb_after"} /\ loc.success /\ pc' \notin {pc, "crashed"})
             => FileHolds(mem', state_file')]_vars
    /\ [](pc = "rc_start" /\ loc.at_circuit
             => /\ Len(state_file) = Len(SavedLines(mem))
                /\ state_file[7] = <<"circuit_hit_for_date", TextOfBool(TRUE)>>)
C30_Witness ==
    /\ pc = "loop_top"
    /\ mem.last_order_at_circuit
    /\ mem.circuit_hit_for_date
    /\ FileHolds(mem, state_file)

\* C27: every rapid click started by place_buy_order or by the boundary
\* scheduler returns to its caller, which appends exactly one row, SUCCESS
\* or FAILED as the returned success says and with the returned click count;
\* a completed form-only fill appends exactly one FORM_FILLED row; an attempt
\* aborted for a missing price is reported as an error (and appends no row);
\* and the rows of an attempt only grow, one appended row at a time.
C27_OneRowPerOutcome ==
    /\ [](pc \in RcPcs => loc.rc_ret \in {"sb_after", "pb_after"} /\ hist.rows = 0)
    /\ [][(pc = "rc_done" /\ pc' # pc) => pc' = loc.rc_ret]_vars
    /\ [][(pc \in {"sb_after", "pb_after"} /\ pc' # pc)
             => /\ hist'.rows = 1
                /\ hist'.row = [status |-> IF loc.success THEN "SUCCESS" ELSE "FAILED",
                                click_count |-> loc.click_count]]_vars
    /\ [][(pc = "pb_fill" /\ pc' \notin {pc, "rc_start"})
             => \/ hist'.price_error /\ hist'.rows = 0
                \/ /\ ~hist'.price_error
                   /\ loc.form_filling_mode
                   /\ hist'.rows = 1
                   /\ hist'.row = [status |-> "FORM_FILLED", click_count |-> 0]]_vars
    /\ [][hist'.row # hist.row
             => \/ hist'.rows = hist.rows + 1
                \/ hist'.row = NoRow /\ hist'.rows = 0]_vars
C27_Witness ==
    /\ hist.rows = 1
    /\ hist.row.status = "SUCCESS"
    /\ hist.row.click_count >= 1

\* The step that returns from check_session_validity with a result.
CheckReturns ==
    /\ cs.pc \in {"probe", "refresh", "login", "navigate", "recreate"}
    /\ cs'.pc \in {"checked", "place_checked", "prepare_checked"}

\* C25: the form fill and dispatch of a cycle come after a session check
\* that returned true; the check returns true only with a logged-in session
\* on the order-entry page; and after a check that returned false the main
\* loop takes no order action.
C25_CheckedOnOrderPage ==
    /\ [](cs.pc = "fill" => cs.session_ok)
    /\ [][(CheckReturns /\ cs'.session_ok) => (driver'.auth /\ driver'.page = "order")]_vars
    /\ [][(cs.pc = "checked" /\ ~cs.session_ok /\ cs'.pc # cs.pc) => cs'.pc = "backoff"]_vars

\* C26: a failed probe is followed by refresh, login and navigation, in
\* this order; the recovery returns true exactly when the login and the
\* navigation both succeeded, so a failed login (a captcha wait that ran
\* out included) returns false; after false the main loop takes no order
\* action, sleeps and goes round again, and only the loop condition ends
\* it; a driver error recreates the driver and then logs in and navigates.
C26_RecoveryMachine ==
    /\ [][(cs.pc = "probe" /\ cs'.pc # cs.pc)
             => IF ~driver.alive THEN cs'.pc = "recreate"
                ELSE IF DashboardShown(driver) THEN CheckReturns /\ cs'.session_ok
                ELSE cs'.pc = "refresh"]_vars
    /\ [][(cs.pc = "refresh" /\ cs'.pc # cs.pc)
             => cs'.pc = IF driver.alive THEN "login" ELSE "recreate"]_vars
    /\ [][(cs.pc = "login" /\ cs'.pc # cs.pc)
             => \/ cs'.pc = "navigate" /\ driver'.auth
                \/ CheckReturns /\ ~cs'.session_ok]_vars
    /\ [][(cs.pc = "navigate" /\ cs'.pc # cs.pc)
             => /\ CheckReturns
                /\ cs'.session_ok <=> (driver'.auth /\ driver'.page = "order")]_vars
    /\ [][(cs.pc = "recreate" /\ cs'.pc # cs.pc)
             => \/ cs'.pc = "login" /\ driver'.alive
                \/ cs'.pc \in {"error", "loop"} /\ ~cs'.session_ok]_vars
    /\ [][(cs.pc = "checked" /\ ~cs.session_ok /\ cs'.pc # cs.pc) => cs'.pc = "backoff"]_vars
    /\ [][(cs.pc \in {"backoff", "error"} /\ cs'.pc # cs.pc) => cs'.pc = "loop"]_vars
    /\ [](cs.pc = "done" => ~LoopCondition)
C26_Witness ==
    /\ cs.pc = "backoff"
    /\ driver.alive
    /\ driver.auth
    /\ driver.page = "dashboard"

\* C31: record with only one mark set appends no line and leaves the
\* profiler as it was; with both marks set it appends exactly one line and
\* unsets both marks.
C31_RecordNoPartial ==
    [][latency_profiler'.last = "record"
         => IF BothMarked(latency_profiler)
            THEN /\ latency_profiler'.lines = latency_profiler.lines + 1
                 /\ latency_profiler'.boundary_order_time = None
                 /\ latency_profiler'.server_response_time = None
            ELSE /\ latency_profiler'.lines = latency_profiler.lines
                 /\ latency_profiler'.boundary_order_time
                      = latency_profiler.boundary_order_time
                 /\ latency_profiler'.server_response_time
                      = latency_profiler.server_response_time]_vars

\* datetime.time values compare as (hour, minute, second).
ClockOf(t) == <<Tod(t) \div 3600, (Tod(t) % 3600) \div 60, Tod(t) % 60>>
TimeLeq(a, b) ==
    \/ a[1] < b[1]
    \/ a[1] = b[1] /\ a[2] < b[2]
    \/ a[1] = b[1] /\ a[2] = b[2] /\ a[3] <= b[3]
InWindow(t, start_hour, start_minute, end_hour, end_minute) ==
    /\ TimeLeq(<<start_hour, start_minute, 0>>, ClockOf(t))
    /\ TimeLeq(ClockOf(t), <<end_hour, end_minute, 0>>)

\* C32: at every time of day the two session tests are never both true,
\* each is true exactly at the times from its configured start to its
\* configured end, and each boundary instant lies inside its own window.
C32_WindowsDisjoint ==
    /\ ~(is_pre_open_hours(now) /\ is_regular_trading_hours(now))
    /\ is_pre_open_hours(now)
         <=> InWindow(now, PREOPEN_START_HOUR, PREOPEN_START_MINUTE,
                      PREOPEN_END_HOUR, PREOPEN_END_MINUTE)
    /\ is_regular_trading_hours(now)
         <=> InWindow(now, REGULAR_START_HOUR, REGULAR_START_MINUTE,
                      REGULAR_END_HOUR, REGULAR_END_MINUTE)
    /\ is_trading_hours(now) <=> (is_pre_open_hours(now) \/ is_regular_trading_hours(now))
    /\ now = PreopenBoundary => is_pre_open_hours(now)
    /\ now = RegularBoundary => is_regular_trading_hours(now)
C32_Witness == now = RegularBoundary /\ is_regular_trading_hours(now) /\ ~is_pre_open_hours(now)

\* C33: the paced rapid click consumes at most MaxClicks schedule entries
\* and never counts more clicks than entries; an attempt without success,
\* whatever the driver raised, goes on with the next entry; the loop ends
\* only on success, on a flag, or with the schedule used up, and then it
\* returns success = false; and every rapid click returns.
C33_RapidClickTerminates ==
    /\ [](pc \in RcPcs => loc.i <= MaxClicks /\ loc.click_count <= loc.i)
    /\ [][(pc = "rc_click" /\ pc' # pc)
             => IF loc'.success THEN pc' = loc.rc_ret /\ order_success'
                ELSE pc' = "rc_top"]_vars
    /\ [][(pc \in {"rc_top", "rc_recheck"} /\ pc' = "rc_done")
             => (loc.i = MaxClicks \/ StopsAtHead)]_vars
    /\ [](pc = "rc_done" => ~order_success)
    /\ [][(pc = "rc_done" /\ pc' # pc) => (~loc'.success /\ pc' = loc.rc_ret)]_vars
    /\ (pc \in RcPcs ~> pc \notin RcPcs)
C33_Witness ==
    /\ pc = "rc_done"
    /\ loc.i = MaxClicks
    /\ hist.misses >= 1
    /\ ~StopsAtHead

\* C34: when fill_price_regular runs with the circuit not yet reached for
\* today and a circuit limit it has or can compute, the candidate is
\* floor(high * 1.02) in tenths, or the limit when the High cannot be read;
\* the submit price is the smaller of candidate and limit; at_circuit and
\* circuit_hit_for_date are true exactly when candidate >= limit.  With
\* pre-close 100.0 the limit is 110.0; high 108.0 gives 110.0 at circuit,
\* high 95.0 gives 96.9 not at circuit.
C34_CandidateAndCap ==
    \A shown \in PreCloseValues \cup {None}, high \in HighValues \cup {None},
       field_ok \in BOOLEAN :
        LET before == _reset_daily_limits_if_needed(mem, DayOf(now))
            r == fill_price_regular(mem, DayOf(now), shown, high, field_ok)
            limit == r.m.circuit_limit_price_for_date
            candidate == IF high = None THEN limit ELSE (high * 102) \div 100
            capped == IF candidate < limit THEN candidate ELSE limit
        IN  (/\ before.circuit_limit_price_for_date = None \/ ~before.circuit_hit_for_date
             /\ limit # None)
            => /\ r.m.regular_session_price_for_date = capped
               /\ r.price = IF field_ok THEN capped ELSE None
               /\ r.at_circuit <=> candidate >= limit
               /\ r.m.circuit_hit_for_date <=> candidate >= limit
               /\ r.m.pre_close_price = 1000 => limit = 1100
               /\ (limit = 1100 /\ high = 1080) => (capped = 1100 /\ r.at_circuit)
               /\ (limit = 1100 /\ high = 950) => (capped = 969 /\ ~r.at_circuit)
C34_Witness ==
    /\ pc = "sb_fine"
    /\ loc.boundary_type = "REGULAR"
    /\ loc.price = 969
    /\ ~loc.at_circuit
    /\ ~mem.circuit_hit_for_date
    /\ mem.circuit_limit_price_for_date = 1100

\* The fields of the circuit tracking.
Tracked(m) ==
    <<m.trading_date, m.circuit_limit_price_for_date, m.regular_session_price_for_date,
      m.circuit_hit_for_date, m.last_order_at_circuit>>
UsesPreopenFill ==
    \/ pc = "sb_fill" /\ loc.boundary_type = "PREOPEN"
    \/ pc = "pb_fill" /\ is_pre_open_hours(now)

\* C35: fill_price_pre_open yields floor(pre-close * 1.02) in tenths with
\* at_circuit false, and neither it nor the successful pre-open boundary
\* order after it changes trading_date, the circuit limit, the regular
\* session price, circuit_hit_for_date or last_order_at_circuit.
C35_PreopenTracksNothing ==
    /\ [][(UsesPreopenFill /\ pc' \notin {pc, "crashed"})
             => /\ Tracked(mem') = Tracked(mem)
                /\ pc' \in {"sb_fine", "rc_start"}
                     => /\ ~loc'.at_circuit
                        /\ loc'.price \in {None, (mem'.pre_close_price * 102) \div 100}]_vars
    /\ [][(pc = "sb_after" /\ loc.boundary_type = "PREOPEN" /\ loc.success /\ pc' # pc)
             => Tracked(mem') = Tracked(mem)]_vars

\* C36: a step of the hotkey callbacks (a step that is not the main
\* thread's) only raises flags: active stays false once false, an Event once
\* set stays set, and the clock, the main thread's position and locals, the
\* price and circuit fields, the state file, the browser and the order log
\* are as they were; active never returns to true.
C36_HotkeysOnlySetFlags ==
    /\ [][~MainThread
             => /\ ~active => ~active'
                /\ stop_clicking => stop_clicking'
                /\ refresh_requested => refresh_requested'
                /\ order_success' = order_success
                /\ UNCHANGED <<now, pc, loc, mem, state_file, driver, cs, latency_profiler>>
                /\ hist'.row = hist.row /\ hist'.rows = hist.rows
                /\ hist'.fired = hist.fired]_vars
    /\ [][hist.stop_at # "none" => ~active']_vars
C36_Witness ==
    /\ hist.stop_at = "rc_wait" /\ ~active /\ stop_clicking /\ refresh_requested
    /\ pc = "rc_wait" /\ state_file # <<>> /\ hist.fired # {}

\* The main thread comes to position `to` only from the positions `froms`.
EntersFrom(to, froms) == (pc' = to /\ pc # to) => pc \in froms

\* C37: within an order cycle the session is validated, then the form is
\* prepared, then the price is filled, then the BUY clicks start: the form is
\* prepared only after a valid session check, the price fill is called only
\* after a prepared form, the dispatch starts only after the price fill, and
\* BUY is clicked only inside a dispatch.
C37_CycleOrder ==
    [][/\ EntersFrom("sb_prepare", {"sb_refresh"})
       /\ EntersFrom("sb_fill", {"sb_prepare"})
       /\ EntersFrom("sb_fine", {"sb_fill", "sb_fine_sleep"})
       /\ EntersFrom("sb_fine_delta", {"sb_fine"})
       /\ EntersFrom("sb_fine_sleep", {"sb_fine_delta"})
       /\ EntersFrom("sb_fire", {"sb_fine"})
       /\ EntersFrom("pb_prepare", {"pb_session"})
       /\ EntersFrom("pb_fill", {"pb_prepare"})
       /\ EntersFrom("rc_start", {"sb_fire", "pb_fill"})
       /\ \A p \in RcPcs \ {"rc_start"} : EntersFrom(p, RcPcs)
       /\ pc = "rc_start" => loc.rc_ret = (IF loc.pb_ret = "none" THEN "sb_after" ELSE "pb_after")]_vars
C37_Witness ==
    /\ pc = "sb_after" /\ loc.success /\ loc.click_count >= 1 /\ loc.price # None

\* C38: the circuit limit held for a trading date was computed from a
\* pre-close read from the page on that date, never from a value cached on
\* an earlier date.
C38_FreshPreClose ==
    (mem.circuit_limit_price_for_date # None /\ mem.trading_date \in 0..LastDay)
        => hist.read_on = mem.trading_date

\* C39: an order recorded at the circuit implies the circuit was reached for
\* the date, and a circuit reached implies a circuit limit is set.
\* The same holds of the memory a relaunch would restore from the state file.
CircuitFlagsNested(m) ==
    /\ m.last_order_at_circuit = TRUE => m.circuit_hit_for_date = TRUE
    /\ m.circuit_hit_for_date = TRUE => m.circuit_limit_price_for_date # None
C39_CircuitFlagsNested ==
    /\ CircuitFlagsNested(mem)
    /\ CircuitFlagsNested(_restore_state_from_local_storage(state_file))
C39_Witness ==
    /\ mem.last_order_at_circuit /\ mem.circuit_hit_for_date
    /\ mem.circuit_limit_price_for_date # None
    /\ state_file # <<>> /\ pc = "loop_top"

\* No pre-close is cached and no circuit limit is set for `today`.
PreCloseUnreadable(m, today) ==
    /\ m.pre_close_price = None
    /\ _reset_daily_limits_if_needed(m, today).circuit_limit_price_for_date = None

\* C40: with no circuit limit set for today and a pre-close that cannot be
\* read, fill_price_regular returns no price and at_circuit false and, when
\* trading_date is today already, leaves the circuit limit, the submit price,
\* circuit_hit, last_order_at_circuit and the state file as they were;
\* place_buy_order then returns false to the main loop without a dispatch,
\* a click or an order-log row.
C40_NoPreCloseNoOrder ==
    /\ [](\A high \in HighValues \cup {None}, field_ok \in BOOLEAN :
            LET today == DayOf(now)
                r == fill_price_regular(mem, today, None, high, field_ok)
            IN  PreCloseUnreadable(mem, today)
                  => /\ r.price = None /\ ~r.at_circuit
                     /\ mem.trading_date = today
                          => /\ r.m.circuit_limit_price_for_date = mem.circuit_limit_price_for_date
                             /\ r.m.regular_session_price_for_date = mem.regular_session_price_for_date
                             /\ r.m.circuit_hit_for_date = mem.circuit_hit_for_date
                             /\ r.m.last_order_at_circuit = mem.last_order_at_circuit
                             /\ Persist(state_file, r) = state_file)
    /\ [][(/\ pc = "pb_fill" /\ pc' # pc
            /\ ~is_pre_open_hours(now)
            /\ PreCloseUnreadable(mem, DayOf(now))
            /\ mem'.pre_close_price = None)
             => /\ pc' = loc.pb_ret
                /\ pc' \in {"loop_top", "f5_clear", "btb_f5_clear", "btb_after"}
                /\ ~loc'.at_circuit /\ loc'.click_count = 0
                /\ hist'.price_error /\ hist'.rows = hist.rows
                /\ active' = active]_vars
C40_Witness ==
    /\ pc = "btb_after" /\ hist.price_error /\ ~loc.at_circuit
    /\ mem.pre_close_price = None /\ mem.circuit_limit_price_for_date = None
    /\ mem.trading_date = DayOf(now) /\ state_file # <<>>

====
